---- MODULE Spec2Model ----
(***************************************************************************)
(* Authentication core of the JWT service (src/app): credential hasher,    *)
(* token codec, principal resolver and session gate, together with the     *)
(* /auth/register, /auth/login, /auth/me and POST /items/ handlers that    *)
(* use them; and the in-memory demo service (src/main.py), a separate      *)
(* program that keeps its items in a list behind a fixed API key.          *)
(*                                                                         *)
(* Time is counted in ticks, TicksPerSecond ticks to a second, so that a   *)
(* datetime (sub-second resolution) and a JWT NumericDate (whole seconds)  *)
(* are different things and the conversion between them is visible.        *)
(***************************************************************************)
EXTENDS Integers, FiniteSets, Sequences, TLC

VARIABLES
    users,      \* the users table: a set of rows
    pending,    \* register_user requests suspended between check and commit
    now,        \* the clock read by datetime.utcnow(), in ticks
    last,       \* the request answered by the step just taken, with its response
    issued,     \* codec harness: the last create_access_token call and its result
    decoded,    \* codec harness: the last verify_token call on that result
    verified,   \* hasher harness: the last verify_password call and its result
    gate,       \* a request inside the session gate: its position and what it holds
    items,      \* the items table of the JWT service: a set of rows
    creating,   \* create_item requests suspended between check and commit
    fake_items_db,  \* demo service (src/main.py): the list of items
    request_logs,   \* demo service: the number of entries of the list request_logs
    reply           \* demo service: the request answered by the step just taken

vars == <<users, pending, now, last, issued, decoded, verified, gate,
          items, creating, fake_items_db, request_logs, reply>>

\* the state of the JWT service (src/app) and of the demo service (src/main.py)
appVars == <<users, pending, now, last, issued, decoded, verified, gate, items, creating>>
demoVars == <<fake_items_db, request_logs, reply>>

\* what the handlers of the authentication endpoints never touch
aux == <<verified, gate, items, creating, demoVars>>

----------------------------------------------------------------------------
(* Bounds of the model *)

TicksPerSecond == 2
MaxTick == 4
MaxPending == 2
MaxLogs == 4

(* Program constants *)

SECRET_KEY == "tu-clave-super-secreta-cambiar-en-produccion-123456789"
ALGORITHM == "HS256"
ACCESS_TOKEN_EXPIRE_MINUTES == 30
DEFAULT_EXPIRE_MINUTES == 15

(* Input domains *)

Emails == {"a@x.com", "b@x.com"}
Passwords == {"secret1", "secret2"}

\* bodies of POST /auth/register: is_active left at its default, or sent false
UserCreates ==
    {[email |-> e, password |-> p, is_active |-> TRUE] : e \in Emails, p \in Passwords}
    \cup {[email |-> "a@x.com", password |-> "secret1", is_active |-> FALSE]}

\* timedelta(minutes = m), in ticks
Minutes(m) == m * 60 * TicksPerSecond

\* timedelta(seconds = s), in ticks
Seconds(s) == s * TicksPerSecond

\* timegm(dt.utctimetuple()): a datetime truncated to whole seconds
timegm(dt) == dt \div TicksPerSecond

----------------------------------------------------------------------------
(* Results of a call: a returned value, a returned None, or a raised exception *)

Return(v) == [exc |-> "", none |-> FALSE, val |-> v]
ReturnNone(dummy) == [exc |-> "", none |-> TRUE, val |-> dummy]
Raise(e, dummy) == [exc |-> e, none |-> FALSE, val |-> dummy]

Raised(r) == r.exc # ""
IsNone(r) == r.exc = "" /\ r.none
IsValue(r) == r.exc = "" /\ ~r.none

----------------------------------------------------------------------------
(* Credential hasher *)

NoHash == [scheme |-> "", digest |-> ""]

\* pwd_context.hash(password): a bcrypt hash, opaque to everything but verify
get_password_hash(password) == [scheme |-> "bcrypt", digest |-> password]

\* a verify that treats a string it cannot identify as a non-match
verify_password_FailClosed(plain_password, hashed_password) ==
    Return(hashed_password.scheme = "bcrypt"
           /\ hashed_password.digest = plain_password)

\* pwd_context.verify(plain, hashed): the comparison when the string is a
\* bcrypt hash; passlib raises UnknownHashError ("hash could not be
\* identified") for a string that is of no scheme of the context
verify_password(plain_password, hashed_password) ==
    IF hashed_password.scheme = "bcrypt"
    THEN Return(hashed_password.digest = plain_password)
    ELSE Raise("UnknownHashError", FALSE)

----------------------------------------------------------------------------
(* Token codec.  A claims mapping is a function from its keys to values; a  *)
(* token is its header's algorithm, its payload and its signature; the      *)
(* signature is the triple that was signed (an ideal MAC).                  *)

EmptyClaims == [k \in {} |-> 0]

\* dict.update: d with key k set to v
DictUpdate(d, k, v) == [x \in DOMAIN d \cup {k} |-> IF x = k THEN v ELSE d[x]]

\* "if expires_delta:" -- None and timedelta(0) are both falsy
NoDelta == [given |-> FALSE, ticks |-> 0]
Delta(t) == [given |-> TRUE, ticks |-> t]
Truthy(expires_delta) == expires_delta.given /\ expires_delta.ticks # 0

Sign(key, alg, payload) == [key |-> key, alg |-> alg, payload |-> payload]

MalformedToken ==
    [wellformed |-> FALSE, alg |-> "", payload |-> EmptyClaims,
     sig |-> Sign("", "", EmptyClaims)]

\* jose.jwt.encode: an 'exp' datetime becomes a NumericDate, then header,
\* payload and signature are put together
jwt_encode(claims, key, algorithm) ==
    LET payload == IF "exp" \in DOMAIN claims
                   THEN DictUpdate(claims, "exp", timegm(claims["exp"]))
                   ELSE claims
    IN  [wellformed |-> TRUE, alg |-> algorithm, payload |-> payload,
         sig |-> Sign(key, algorithm, payload)]

\* jose.jwt.decode(token, key, algorithms) at clock t: the payload, or the
\* exception raised
jwt_decode(token, key, algorithms, t) ==
    IF ~token.wellformed THEN Raise("JWTError", EmptyClaims)
    ELSE IF token.alg \notin algorithms THEN Raise("JWTError", EmptyClaims)
    ELSE IF token.sig # Sign(key, token.alg, token.payload)
         THEN Raise("JWTError", EmptyClaims)
    ELSE IF "exp" \in DOMAIN token.payload /\ token.payload["exp"] < timegm(t)
         THEN Raise("ExpiredSignatureError", EmptyClaims)
    ELSE Return(token.payload)

\* a handler that catches the base class by exact match only
IsJWTError_BaseOnly(e) == e = "JWTError"

\* the exception classes "except JWTError" catches
IsJWTError(e) == e \in {"JWTError", "ExpiredSignatureError", "JWTClaimsError"}

\* a codec that ignores the ttl it is given
create_access_token_DefaultOnly(data, expires_delta, t) ==
    jwt_encode(DictUpdate(data, "exp", t + Minutes(DEFAULT_EXPIRE_MINUTES)),
               SECRET_KEY, ALGORITHM)

create_access_token(data, expires_delta, t) ==
    LET expire == IF Truthy(expires_delta)
                  THEN t + expires_delta.ticks
                  ELSE t + Minutes(DEFAULT_EXPIRE_MINUTES)
        to_encode == DictUpdate(data, "exp", expire)
    IN  jwt_encode(to_encode, SECRET_KEY, ALGORITHM)

verify_token(token, t) ==
    LET r == jwt_decode(token, SECRET_KEY, {ALGORITHM}, t)
    IN  IF Raised(r) /\ IsJWTError(r.exc) THEN ReturnNone(EmptyClaims) ELSE r

----------------------------------------------------------------------------
(* Persistence layer *)

NoUser == [id |-> 0, email |-> "", hashed_password |-> NoHash, is_active |-> FALSE]

\* get_db yields a session made by AsyncSessionLocal, whose class is AsyncSession
get_db == "AsyncSession"

Max(S) == CHOOSE x \in S : \A y \in S : y <= x

\* the integer primary key given to a new row
NextId(table) == IF table = {} THEN 1 ELSE Max({u.id : u \in table}) + 1

\* await db.execute(select(UserModel).filter(UserModel.email == email)),
\* then .scalars().first()
SelectByEmail(table, email) ==
    IF \E u \in table : u.email = email
    THEN Return(CHOOSE u \in table : u.email = email)
    ELSE ReturnNone(NoUser)

\* db.query(UserModel).filter(UserModel.email == email).first(): the ORM's
\* legacy query interface, which a synchronous Session has and an
\* AsyncSession has not ("'AsyncSession' object has no attribute 'query'")
QueryByEmail(db, table, email) ==
    IF db = "AsyncSession" THEN Raise("AttributeError", NoUser)
    ELSE SelectByEmail(table, email)

\* "await f(...)" where f is a plain "def": the call runs to its end, and
\* awaiting what it returned (not an awaitable) raises TypeError
AwaitPlain(r) == IF Raised(r) THEN r ELSE Raise("TypeError", r.val)

----------------------------------------------------------------------------
(* Principal resolver *)

authenticate_user(db, table, email, password) ==
    LET user == QueryByEmail(db, table, email)
    IN  IF Raised(user) THEN user
        ELSE IF IsNone(user) THEN ReturnNone(NoUser)
        ELSE LET match == verify_password(password, user.val.hashed_password)
             IN  IF Raised(match) THEN Raise(match.exc, NoUser)
                 ELSE IF ~match.val THEN ReturnNone(NoUser)
                 ELSE user

get_user_by_email(db, table, email) == QueryByEmail(db, table, email)

----------------------------------------------------------------------------
(* Responses.  challenge: the response carries "WWW-Authenticate: Bearer". *)

NoToken == MalformedToken

Response(status, detail, challenge) ==
    [status |-> status, detail |-> detail, challenge |-> challenge,
     user |-> NoUser, access_token |-> NoToken, token_type |-> ""]

NoResponse == Response(0, "", FALSE)

\* an exception no handler catches: the framework answers 500
ServerError == Response(500, "Internal Server Error", FALSE)

credentials_exception ==
    Response(401, "No se pudieron validar las credenciales", TRUE)

inactive_exception == Response(400, "Usuario inactivo", FALSE)

\* what a dependency hands on: the account, an HTTPException, or another fault
GateOk(user) == [exc |-> "", http |-> NoResponse, user |-> user]
GateHttp(h) == [exc |-> "HTTPException", http |-> h, user |-> NoUser]
GateFault(e) == [exc |-> e, http |-> NoResponse, user |-> NoUser]

\* the framework's answer to the outcome r of a handler with its dependencies
Respond(r, status) ==
    IF r.exc = "" THEN [Response(status, "", FALSE) EXCEPT !.user = r.user]
    ELSE IF r.exc = "HTTPException" THEN r.http
    ELSE ServerError

----------------------------------------------------------------------------
(* Session gate *)

NoCredentials == [scheme |-> "", token |-> NoToken]
Bearer(token) == [scheme |-> "Bearer", token |-> token]

\* OAuth2PasswordBearer(tokenUrl="auth/login"): the token of the
\* Authorization header, or 401 when the header is missing or not a Bearer one
oauth2_scheme(cred) ==
    IF cred.scheme # "Bearer"
    THEN GateHttp(Response(401, "Not authenticated", TRUE))
    ELSE GateOk(NoUser)

get_current_user(token, db, table, t) ==
    LET payload == verify_token(token, t)
    IN  IF Raised(payload) THEN GateFault(payload.exc)
        ELSE IF IsNone(payload) THEN GateHttp(credentials_exception)
        ELSE IF "sub" \notin DOMAIN payload.val THEN GateHttp(credentials_exception)
        ELSE LET user == get_user_by_email(db, table, payload.val["sub"])
             IN  IF Raised(user) THEN GateFault(user.exc)
                 ELSE IF IsNone(user) THEN GateHttp(credentials_exception)
                 ELSE GateOk(user.val)

get_current_active_user(current_user) ==
    IF current_user.exc # "" THEN current_user
    ELSE IF ~current_user.user.is_active THEN GateHttp(inactive_exception)
    ELSE current_user

\* the chain Depends(oauth2_scheme), Depends(get_db) -> get_current_user ->
\* get_current_active_user, as the framework resolves it for one request
SessionGate(cred, table, t) ==
    LET extracted == oauth2_scheme(cred)
    IN  IF extracted.exc # "" THEN extracted
        ELSE get_current_active_user(get_current_user(cred.token, get_db, table, t))

----------------------------------------------------------------------------
(* Handlers *)

\* POST /auth/login
login_user(username, password, db, table, t) ==
    LET user == AwaitPlain(authenticate_user(db, table, username, password))
    IN  IF Raised(user) THEN ServerError
        ELSE IF IsNone(user)
             THEN Response(401, "Email o password incorrectos", TRUE)
        ELSE [Response(200, "", FALSE) EXCEPT
                !.access_token =
                    create_access_token([k \in {"sub"} |-> user.val.email],
                                        Delta(Minutes(ACCESS_TOKEN_EXPIRE_MINUTES)), t),
                !.token_type = "bearer"]

\* GET /auth/me
get_current_user_info(cred, table, t) == Respond(SessionGate(cred, table, t), 200)

----------------------------------------------------------------------------
(* What a client may present *)

\* the NumericDate of a token that expires with second 0, and of one that
\* lasts beyond every instant of the model
ExpSoon == timegm(0)
ExpLate == timegm(Minutes(ACCESS_TOKEN_EXPIRE_MINUTES))

ClientPayloads ==
    {[k \in {"sub", "exp"} |-> IF k = "sub" THEN e ELSE x] :
        e \in Emails, x \in {ExpSoon, ExpLate}}
    \cup {[k \in {"exp"} |-> x] : x \in {ExpSoon, ExpLate}}

\* a token signed with the service's key and algorithm
Signed(payload) ==
    [wellformed |-> TRUE, alg |-> ALGORITHM, payload |-> payload,
     sig |-> Sign(SECRET_KEY, ALGORITHM, payload)]

\* the same token with a byte of its signature flipped
Tampered(token) == [token EXCEPT !.sig.key = "flipped"]

SamplePayload == [k \in {"sub", "exp"} |-> IF k = "sub" THEN "a@x.com" ELSE ExpLate]

ClientTokens ==
    {Signed(p) : p \in ClientPayloads}
    \cup {MalformedToken,
          Tampered(Signed(SamplePayload)),
          [Signed(SamplePayload) EXCEPT !.sig.key = "another-key"],
          [wellformed |-> TRUE, alg |-> "none", payload |-> SamplePayload,
           sig |-> Sign("", "none", SamplePayload)]}

ClientCredentials ==
    {NoCredentials, [scheme |-> "Basic", token |-> MalformedToken]}
    \cup {Bearer(tk) : tk \in ClientTokens}

----------------------------------------------------------------------------
(* The in-memory demo service (src/main.py): its inputs, dependencies and   *)
(* the helpers of its handlers.                                             *)

valid_token == "mi-api-key-secreta"

\* the Authorization header of a request: none, the key, another token
NoHeader == [scheme |-> "", credentials |-> ""]
DemoCredentials ==
    {NoHeader, [scheme |-> "Bearer", credentials |-> valid_token],
     [scheme |-> "Bearer", credentials |-> "otra-clave"]}

\* the status HTTPBearer answers a missing header with: 403 in the releases
\* of the framework that the code's imports admit, 401 in the later ones
HTTPBearerStatuses == {403, 401}

\* the statuses security can answer the header cred with
MissStatuses(cred) == IF cred.scheme = "Bearer" THEN {403} ELSE HTTPBearerStatuses

NoTax == -1
ItemNames == {"Pen", "pen", "Ink"}

\* str.lower() on the names above
Lower(name) == IF name = "Pen" THEN "pen" ELSE name

\* request bodies: valid ones, one with a price of 0, one with a tax over 100
ItemInputs ==
    {[name |-> n, price |-> 10, tax |-> NoTax] : n \in ItemNames}
    \cup {[name |-> "Ink", price |-> 10, tax |-> 10],
          [name |-> "Ink", price |-> 0, tax |-> NoTax],
          [name |-> "Ink", price |-> 10, tax |-> 150]}

NoItem == [name |-> "", price |-> 0, tax |-> NoTax]

\* path parameters item_id
ItemIds == 0..2

NoData == [kind |-> "none"]

\* a dependency's or handler's outcome: status 0 is "returned normally"
DemoOk == [status |-> 0, detail |-> "", data |-> NoData]
DemoHttp(status, detail) == [status |-> status, detail |-> detail, data |-> NoData]

\* security = HTTPBearer(): the credentials of a Bearer header, or its own
\* rejection when there is no such header (auto_error)
security(cred, miss) ==
    IF cred.scheme # "Bearer" \/ cred.credentials = ""
    THEN DemoHttp(miss, "Not authenticated")
    ELSE DemoOk

\* a validate_api_key that lets any Bearer token through
validate_api_key_AnyToken(cred, miss) == security(cred, miss)

validate_api_key(cred, miss) ==
    LET credentials == security(cred, miss)
    IN  IF credentials.status # 0 THEN credentials
        ELSE IF cred.credentials # valid_token THEN DemoHttp(401, "Token inválido")
        ELSE DemoOk

\* the user every valid key stands for
DemoUser == [id |-> 1, name |-> "Usuario Demo", role |-> "admin"]

\* get_current_user of src/main.py
demo_get_current_user(cred, miss) == validate_api_key(cred, miss)

validate_item_data(item) ==
    IF item.price <= 0 THEN DemoHttp(400, "El precio debe ser mayor a 0")
    ELSE IF item.tax \notin {NoTax, 0} /\ (item.tax < 0 \/ item.tax > 100)
         THEN DemoHttp(400, "El impuesto debe estar entre 0 y 100")
    ELSE DemoOk

\* the dependencies of create_item and update_item, solved in the order of
\* the parameters: validate_item_data, then get_current_user
WriteDependencies(cred, item, miss) ==
    LET validated_item == validate_item_data(item)
    IN  IF validated_item.status # 0 THEN validated_item
        ELSE demo_get_current_user(cred, miss)

total_price(item) ==
    IF item.tax \notin {NoTax, 0}
    THEN item.price + (item.price * item.tax) \div 100
    ELSE item.price

ItemResponse(item_id, item) ==
    [id |-> item_id, name |-> item.name, price |-> item.price, tax |-> item.tax,
     total_price |-> total_price(item)]

\* index of the first entry with this id, 0 if there is none
FirstIndex(db, item_id) ==
    IF \E i \in DOMAIN db : db[i].id = item_id
    THEN CHOOSE i \in DOMAIN db :
            db[i].id = item_id /\ \A j \in 1..(i - 1) : db[j].id # item_id
    ELSE 0

\* list.pop(i)
Pop(db, i) == [j \in 1..(Len(db) - 1) |-> IF j < i THEN db[j] ELSE db[j + 1]]

NoReply == [op |-> "idle", cred |-> NoHeader, item_id |-> 0, item |-> NoItem,
            status |-> 0, detail |-> "", data |-> NoData]

Request(op, cred, item_id, item) ==
    [NoReply EXCEPT !.op = op, !.cred = cred, !.item_id = item_id, !.item = item]

Answer(req, r) == [req EXCEPT !.status = r.status, !.detail = r.detail, !.data = r.data]

ItemData(item) == [kind |-> "item", item |-> item]

----------------------------------------------------------------------------
(* The service as a state machine *)

Idle ==
    [op |-> "idle", email |-> "", password |-> "", is_active |-> TRUE,
     cred |-> NoCredentials, name |-> "", resp |-> NoResponse]

NoIssued == [made |-> FALSE, data |-> EmptyClaims, delta |-> NoDelta, at |-> 0,
             token |-> NoToken]
NoDecoded == [made |-> FALSE, token |-> NoToken, res |-> ReturnNone(EmptyClaims)]

\* no request in the gate; "trace" lists the steps a request has taken
NoGate == [pc |-> "idle", cred |-> NoCredentials, payload |-> ReturnNone(EmptyClaims),
           user |-> NoUser, trace |-> <<>>, res |-> GateOk(NoUser)]

NoVerified == [made |-> FALSE, plain |-> "", hashed |-> NoHash, res |-> Return(FALSE)]

Init ==
    /\ users = {}
    /\ pending = {}
    /\ now = 0
    /\ last = Idle
    /\ issued = NoIssued
    /\ decoded = NoDecoded
    /\ verified = NoVerified
    /\ gate = NoGate
    /\ items = {}
    /\ creating = {}
    /\ fake_items_db = <<>>
    /\ request_logs = 0
    /\ reply = NoReply

\* POST /auth/register up to its suspension at "await db.commit()": the
\* existence check, and the 409 when the email is taken
RegisterCheck(email, password, is_active) ==
    /\ Cardinality(pending) < MaxPending
    /\ LET existing_user == SelectByEmail(users, email)
       IN  IF IsValue(existing_user)
           THEN /\ last' = [Idle EXCEPT !.op = "register", !.email = email,
                              !.password = password, !.is_active = is_active,
                              !.resp = Response(409, "Usuario ya existe", FALSE)]
                /\ UNCHANGED pending
           ELSE /\ pending' = pending \cup {[email |-> email, password |-> password,
                                             is_active |-> is_active]}
                /\ last' = Idle
    /\ UNCHANGED <<users, now, issued, decoded>>
    /\ UNCHANGED aux

\* the commit on a users table whose email column has no unique index
RegisterCommit_NoUnique(p) ==
    /\ p \in pending
    /\ pending' = pending \ {p}
    /\ LET db_user == [id |-> NextId(users), email |-> p.email,
                       hashed_password |-> get_password_hash(p.password),
                       is_active |-> TRUE]
           req == [Idle EXCEPT !.op = "register", !.email = p.email,
                     !.password = p.password, !.is_active = p.is_active]
       IN  /\ users' = users \cup {db_user}
           /\ last' = [req EXCEPT !.resp = Respond(GateOk(db_user), 201)]
    /\ UNCHANGED <<now, issued, decoded>>
    /\ UNCHANGED aux

\* a commit that stores the is_active of the request
RegisterCommit_StoresFlag(p) ==
    /\ p \in pending
    /\ pending' = pending \ {p}
    /\ LET db_user == [id |-> NextId(users), email |-> p.email,
                       hashed_password |-> get_password_hash(p.password),
                       is_active |-> p.is_active]
           req == [Idle EXCEPT !.op = "register", !.email = p.email,
                     !.password = p.password, !.is_active = p.is_active]
       IN  IF \E u \in users : u.email = p.email
           THEN /\ last' = [req EXCEPT !.resp = ServerError]
                /\ UNCHANGED users
           ELSE /\ users' = users \cup {db_user}
                /\ last' = [req EXCEPT !.resp = Respond(GateOk(db_user), 201)]
    /\ UNCHANGED <<now, issued, decoded>>
    /\ UNCHANGED aux

\* the rest of register_user: the INSERT of the commit, which the unique
\* index on users.email refuses (IntegrityError, not caught) for a taken email
RegisterCommit(p) ==
    /\ p \in pending
    /\ pending' = pending \ {p}
    /\ LET db_user == [id |-> NextId(users), email |-> p.email,
                       hashed_password |-> get_password_hash(p.password),
                       is_active |-> TRUE]
           req == [Idle EXCEPT !.op = "register", !.email = p.email,
                     !.password = p.password, !.is_active = p.is_active]
       IN  IF \E u \in users : u.email = p.email
           THEN /\ last' = [req EXCEPT !.resp = ServerError]
                /\ UNCHANGED users
           ELSE /\ users' = users \cup {db_user}
                /\ last' = [req EXCEPT !.resp = Respond(GateOk(db_user), 201)]
    /\ UNCHANGED <<now, issued, decoded>>
    /\ UNCHANGED aux

\* a login that locks the account after a wrong password
Login_Lockout(username, password) ==
    /\ last' = [Idle EXCEPT !.op = "login", !.email = username,
                  !.password = password,
                  !.resp = login_user(username, password, get_db, users, now)]
    /\ users' = {IF u.email = username
                    /\ verify_password(password, u.hashed_password) # Return(TRUE)
                 THEN [u EXCEPT !.is_active = FALSE] ELSE u : u \in users}
    /\ UNCHANGED <<pending, now, issued, decoded>>
    /\ UNCHANGED aux

\* POST /auth/login
Login(username, password) ==
    /\ last' = [Idle EXCEPT !.op = "login", !.email = username,
                  !.password = password,
                  !.resp = login_user(username, password, get_db, users, now)]
    /\ UNCHANGED <<users, pending, now, issued, decoded>>
    /\ UNCHANGED aux

\* a gate that accepts a token once and refuses its immediate replay
Me_SingleUse(cred) ==
    /\ last' = [Idle EXCEPT !.op = "me", !.cred = cred,
                  !.resp = IF last.op = "me" /\ last.cred = cred
                           THEN credentials_exception
                           ELSE get_current_user_info(cred, users, now)]
    /\ UNCHANGED <<users, pending, now, issued, decoded>>
    /\ UNCHANGED aux

\* GET /auth/me
Me(cred) ==
    /\ last' = [Idle EXCEPT !.op = "me", !.cred = cred,
                  !.resp = get_current_user_info(cred, users, now)]
    /\ UNCHANGED <<users, pending, now, issued, decoded>>
    /\ UNCHANGED aux

\* names of items sent to POST /items/ of the JWT service
OwnedItemNames == {"Pen", "Ink"}

\* POST /items/ of the JWT service up to its suspension at "await
\* db.commit()": the gate, the check for an item of this owner with this
\* name, and the 409 when there is one
CreateItemCheck(cred, name) ==
    LET current_user == SessionGate(cred, users, now)
        req == [Idle EXCEPT !.op = "create_item", !.cred = cred, !.name = name]
    IN  /\ IF current_user.exc # ""
           THEN /\ last' = [req EXCEPT !.resp = Respond(current_user, 201)]
                /\ UNCHANGED creating
           ELSE IF \E i \in items : i.name = name /\ i.owner_id = current_user.user.id
           THEN /\ last' = [req EXCEPT !.resp =
                                Response(409, "Ya tienes un item con este nombre", FALSE)]
                /\ UNCHANGED creating
           ELSE /\ creating' = creating \cup
                       {[cred |-> cred, name |-> name, owner_id |-> current_user.user.id]}
                /\ last' = Idle
        /\ UNCHANGED <<users, pending, now, issued, decoded, verified, gate, items, demoVars>>

\* the rest of create_item: the INSERT of the commit; the items table has no
\* unique index over (owner_id, name).  No request gets past the gate (see
\* SessionGate), so this step is never enabled and Next does not list it.
CreateItemCommit(p) ==
    /\ p \in creating
    /\ creating' = creating \ {p}
    /\ items' = items \cup {[id |-> NextId(items), name |-> p.name, owner_id |-> p.owner_id]}
    /\ last' = [Idle EXCEPT !.op = "create_item", !.cred = p.cred, !.name = p.name,
                  !.resp = Response(201, "", FALSE)]
    /\ UNCHANGED <<users, pending, now, issued, decoded, verified, gate, demoVars>>

\* account management outside the service's live endpoints clears the
\* active flag of an account
Deactivate(u) ==
    /\ u \in users
    /\ u.is_active
    /\ users' = (users \ {u}) \cup {[u EXCEPT !.is_active = FALSE]}
    /\ last' = Idle
    /\ UNCHANGED <<pending, now, issued, decoded>>
    /\ UNCHANGED aux

Tick ==
    /\ now < MaxTick
    /\ now' = now + 1
    /\ last' = Idle
    /\ UNCHANGED <<users, pending, issued, decoded>>
    /\ UNCHANGED aux

Next ==
    \/ \E user \in UserCreates : RegisterCheck(user.email, user.password, user.is_active)
    \/ \E p \in pending : RegisterCommit(p)
    \/ \E e \in Emails, p \in Passwords : Login(e, p)
    \/ \E c \in ClientCredentials : Me(c)
    \/ \E c \in ClientCredentials, n \in OwnedItemNames : CreateItemCheck(c, n)
    \/ \E u \in users : Deactivate(u)
    \/ Tick

Spec == Init /\ [][Next]_vars

\* the live endpoints alone: no account management from outside the service
NextApi ==
    \/ \E user \in UserCreates : RegisterCheck(user.email, user.password, user.is_active)
    \/ \E p \in pending : RegisterCommit(p)
    \/ \E e \in Emails, p \in Passwords : Login(e, p)
    \/ \E c \in ClientCredentials : Me(c)
    \/ \E c \in ClientCredentials, n \in OwnedItemNames : CreateItemCheck(c, n)
    \/ Tick

SpecApi == Init /\ [][NextApi]_vars

----------------------------------------------------------------------------
(* The token codec on its own: create_access_token and verify_token applied *)
(* to inputs drawn from bounded sets, at instants of a clock that may jump. *)

\* claims mappings handed to create_access_token; one brings its own 'exp'
ClaimsInputs ==
    {EmptyClaims,
     [k \in {"sub"} |-> "a@x.com"],
     [k \in {"sub"} |-> "b@x.com"],
     [k \in {"sub", "exp"} |-> IF k = "sub" THEN "a@x.com" ELSE 7]}

\* expires_delta: omitted, negative, zero, below a second, a second, the login's
DeltaInputs ==
    {NoDelta, Delta(-Seconds(1)), Delta(0), Delta(1), Delta(Seconds(1)),
     Delta(Minutes(ACCESS_TOKEN_EXPIRE_MINUTES))}

\* the instants the clock is read at: the first ticks, and the ticks from
\* the default and the login lifetime on
Instants ==
    {o + j : o \in {0, Minutes(DEFAULT_EXPIRE_MINUTES),
                    Minutes(ACCESS_TOKEN_EXPIRE_MINUTES)},
             j \in 0 .. (MaxTick + TicksPerSecond)}

Encode(data, expires_delta) ==
    /\ issued' = [made |-> TRUE, data |-> data, delta |-> expires_delta, at |-> now,
                  token |-> create_access_token(data, expires_delta, now)]
    /\ decoded' = NoDecoded
    /\ UNCHANGED <<users, pending, now, last>>
    /\ UNCHANGED aux

Decode(token) ==
    /\ decoded' = [made |-> TRUE, token |-> token, res |-> verify_token(token, now)]
    /\ UNCHANGED <<users, pending, now, last, issued>>
    /\ UNCHANGED aux

Elapse(t) ==
    /\ t > now
    /\ now' = t
    /\ decoded' = NoDecoded
    /\ UNCHANGED <<users, pending, last, issued>>
    /\ UNCHANGED aux

NextCodec ==
    \/ \E d \in ClaimsInputs, x \in DeltaInputs : Encode(d, x)
    \/ \E tk \in ClientTokens : Decode(tk)
    \/ issued.made /\ Decode(issued.token)
    \/ issued.made /\ Decode(Tampered(issued.token))
    \/ \E t \in Instants : Elapse(t)

SpecCodec == Init /\ [][NextCodec]_vars

----------------------------------------------------------------------------
(* The credential hasher and the login on stored rows of any content: the   *)
(* hashed_password column is a plain String, and the table outlives the     *)
(* service, so a row may hold a string that is no bcrypt hash.              *)

\* strings of no scheme: the empty string and a password stored in clear
MalformedHashes == {NoHash, [scheme |-> "", digest |-> "secret1"]}

StoredHashes == {get_password_hash(p) : p \in Passwords} \cup MalformedHashes

IsMalformed(hashed_password) == hashed_password.scheme # "bcrypt"

\* the users tables with at most one row per email, ids given in email order
HasherTables ==
    LET Row(e, h) == [id |-> IF e = "a@x.com" THEN 1 ELSE 2, email |-> e,
                      hashed_password |-> h, is_active |-> TRUE]
    IN  {{Row(e, f[e]) : e \in D} : f \in [Emails -> StoredHashes], D \in SUBSET Emails}

InitHasher ==
    /\ users \in HasherTables
    /\ pending = {}
    /\ now = 0
    /\ last = Idle
    /\ issued = NoIssued
    /\ decoded = NoDecoded
    /\ verified = NoVerified
    /\ gate = NoGate
    /\ items = {}
    /\ creating = {}
    /\ fake_items_db = <<>>
    /\ request_logs = 0
    /\ reply = NoReply

Verify(plain_password, hashed_password) ==
    /\ verified' = [made |-> TRUE, plain |-> plain_password,
                    hashed |-> hashed_password,
                    res |-> verify_password(plain_password, hashed_password)]
    /\ UNCHANGED <<users, pending, now, last, issued, decoded, gate, items, creating, demoVars>>

NextHasher ==
    \/ \E p \in Passwords, u \in users : Verify(p, u.hashed_password)
    \/ \E e \in Emails, p \in Passwords : Login(e, p)

SpecHasher == InitHasher /\ [][NextHasher]_vars

----------------------------------------------------------------------------
(* The session gate step by step: one request on its way through            *)
(* oauth2_scheme, verify_token, get_user_by_email and the active check,     *)
(* while registrations, deactivations and the clock go on around it.        *)

GateSteps == <<"extract", "decode", "resolve", "active">>

\* a request enters the dependency chain of get_current_active_user
GateStart(cred) ==
    /\ gate.pc \in {"idle", "done"}
    /\ gate' = [NoGate EXCEPT !.pc = "extract", !.cred = cred]
    /\ UNCHANGED <<users, pending, now, last, issued, decoded, verified, items, creating, demoVars>>

\* the request ends with outcome r
GateEnd(g, r) == [g EXCEPT !.pc = "done", !.res = r]

\* the step at the request's position, and the position it leaves it at
GateAdvance(g, table, t) ==
    LET h == [g EXCEPT !.trace = Append(g.trace, g.pc)]
    IN  CASE g.pc = "extract" ->
               LET extracted == oauth2_scheme(g.cred)
               IN  IF extracted.exc # "" THEN GateEnd(h, extracted)
                   ELSE [h EXCEPT !.pc = "decode"]
          [] g.pc = "decode" ->
               LET payload == verify_token(g.cred.token, t)
               IN  IF Raised(payload) THEN GateEnd(h, GateFault(payload.exc))
                   ELSE IF IsNone(payload) THEN GateEnd(h, GateHttp(credentials_exception))
                   ELSE IF "sub" \notin DOMAIN payload.val
                        THEN GateEnd(h, GateHttp(credentials_exception))
                   ELSE [h EXCEPT !.pc = "resolve", !.payload = payload]
          [] g.pc = "resolve" ->
               LET user == get_user_by_email(get_db, table, g.payload.val["sub"])
               IN  IF Raised(user) THEN GateEnd(h, GateFault(user.exc))
                   ELSE IF IsNone(user) THEN GateEnd(h, GateHttp(credentials_exception))
                   ELSE [h EXCEPT !.pc = "active", !.user = user.val]
          [] g.pc = "active" ->
               GateEnd(h, get_current_active_user(GateOk(g.user)))

GateStep ==
    /\ gate.pc \in {GateSteps[i] : i \in DOMAIN GateSteps}
    /\ gate' = GateAdvance(gate, users, now)
    /\ UNCHANGED <<users, pending, now, last, issued, decoded, verified, items, creating, demoVars>>

NextGate ==
    \/ \E user \in UserCreates : RegisterCheck(user.email, user.password, user.is_active)
    \/ \E p \in pending : RegisterCommit(p)
    \/ \E u \in users : Deactivate(u)
    \/ Tick
    \/ \E c \in ClientCredentials : GateStart(c)
    \/ GateStep

SpecGate == Init /\ [][NextGate]_vars

----------------------------------------------------------------------------
(* The in-memory demo service (src/main.py): items kept in the list         *)
(* fake_items_db behind a fixed API key.  Its handlers are plain functions  *)
(* with no await; a request is one step.  request_logs is kept as its       *)
(* length: the entries (timestamp, method, path, duration) are only ever    *)
(* returned, never read by a handler.  description and created_at of an     *)
(* item are carried along unchanged by every handler and are left out.      *)

\* POST /items/
DemoCreateItem(cred, item, miss) ==
    LET req == Request("create_item", cred, 0, item)
        deps == WriteDependencies(cred, item, miss)
    IN  /\ UNCHANGED appVars
        /\ IF deps.status # 0
           THEN /\ reply' = Answer(req, deps)
                /\ UNCHANGED <<fake_items_db, request_logs>>
           ELSE /\ request_logs < MaxLogs
                /\ request_logs' = request_logs + 1
                /\ IF \E i \in DOMAIN fake_items_db :
                         Lower(fake_items_db[i].name) = Lower(item.name)
                   THEN /\ reply' = Answer(req, DemoHttp(409, "Ya existe un item con el nombre"))
                        /\ UNCHANGED fake_items_db
                   ELSE LET item_id == Len(fake_items_db) + 1
                            item_response == ItemResponse(item_id, item)
                        IN  /\ fake_items_db' = Append(fake_items_db, item_response)
                            /\ reply' = [req EXCEPT !.status = 201,
                                                    !.data = ItemData(item_response)]

\* PUT /items/{item_id}
DemoUpdateItem(cred, item_id, item, miss) ==
    LET req == Request("update_item", cred, item_id, item)
        deps == WriteDependencies(cred, item, miss)
        item_index == FirstIndex(fake_items_db, item_id)
    IN  /\ UNCHANGED appVars
        /\ IF deps.status # 0
           THEN /\ reply' = Answer(req, deps)
                /\ UNCHANGED <<fake_items_db, request_logs>>
           ELSE /\ request_logs < MaxLogs
                /\ request_logs' = request_logs + 1
                /\ IF item_id <= 0
                   THEN /\ reply' = Answer(req, DemoHttp(400, "El ID debe ser un número positivo"))
                        /\ UNCHANGED fake_items_db
                   ELSE IF item_index = 0
                   THEN /\ reply' = Answer(req, DemoHttp(404, "Item no encontrado"))
                        /\ UNCHANGED fake_items_db
                   ELSE LET updated_item == ItemResponse(item_id, item)
                        IN  /\ fake_items_db' = [fake_items_db EXCEPT ![item_index] = updated_item]
                            /\ reply' = [req EXCEPT !.status = 200,
                                                    !.data = ItemData(updated_item)]

\* DELETE /items/{item_id}
DemoDeleteItem(cred, item_id, miss) ==
    LET req == Request("delete_item", cred, item_id, NoItem)
        deps == demo_get_current_user(cred, miss)
        i == FirstIndex(fake_items_db, item_id)
    IN  /\ UNCHANGED appVars
        /\ IF deps.status # 0
           THEN /\ reply' = Answer(req, deps)
                /\ UNCHANGED <<fake_items_db, request_logs>>
           ELSE /\ request_logs < MaxLogs
                /\ request_logs' = request_logs + 1
                /\ IF item_id <= 0
                   THEN /\ reply' = Answer(req, DemoHttp(400, "El ID debe ser un número positivo"))
                        /\ UNCHANGED fake_items_db
                   ELSE IF i = 0
                   THEN /\ reply' = Answer(req, DemoHttp(404, "Item no encontrado"))
                        /\ UNCHANGED fake_items_db
                   ELSE /\ fake_items_db' = Pop(fake_items_db, i)
                        /\ reply' = [req EXCEPT !.status = 204]

\* GET /items/{item_id}: no key asked for
DemoGetItem(item_id) ==
    LET req == Request("get_item", NoHeader, item_id, NoItem)
        i == FirstIndex(fake_items_db, item_id)
    IN  /\ UNCHANGED appVars
        /\ request_logs < MaxLogs
        /\ request_logs' = request_logs + 1
        /\ UNCHANGED fake_items_db
        /\ reply' = IF item_id <= 0
                    THEN Answer(req, DemoHttp(400, "El ID debe ser un número positivo"))
                    ELSE IF i = 0 THEN Answer(req, DemoHttp(404, "Item no encontrado"))
                    ELSE [req EXCEPT !.status = 200, !.data = ItemData(fake_items_db[i])]

\* the check both admin handlers make of the user the key stands for
AdminOnly(current_user, data) ==
    IF current_user.role # "admin"
    THEN DemoHttp(403, "Se requieren permisos de administrador")
    ELSE [status |-> 200, detail |-> "", data |-> data]

\* GET /admin/logs
DemoGetLogs(cred, miss) ==
    LET req == Request("get_logs", cred, 0, NoItem)
        deps == demo_get_current_user(cred, miss)
    IN  /\ UNCHANGED appVars
        /\ UNCHANGED <<fake_items_db, request_logs>>
        /\ reply' = IF deps.status # 0 THEN Answer(req, deps)
                    ELSE Answer(req, AdminOnly(DemoUser,
                                   [kind |-> "logs", total_logs |-> request_logs]))

\* GET /admin/stats
DemoGetStats(cred, miss) ==
    LET req == Request("get_stats", cred, 0, NoItem)
        deps == demo_get_current_user(cred, miss)
    IN  /\ UNCHANGED appVars
        /\ UNCHANGED <<fake_items_db, request_logs>>
        /\ reply' = IF deps.status # 0 THEN Answer(req, deps)
                    ELSE Answer(req, AdminOnly(DemoUser,
                                   [kind |-> "stats", total_items |-> Len(fake_items_db),
                                    total_requests |-> request_logs]))

NextDemo ==
    \/ \E c \in DemoCredentials : \E m \in MissStatuses(c), item \in ItemInputs :
          DemoCreateItem(c, item, m)
    \/ \E c \in DemoCredentials : \E m \in MissStatuses(c), id \in ItemIds, item \in ItemInputs :
          DemoUpdateItem(c, id, item, m)
    \/ \E c \in DemoCredentials : \E m \in MissStatuses(c), id \in ItemIds :
          DemoDeleteItem(c, id, m)
    \/ \E id \in ItemIds : DemoGetItem(id)
    \/ \E c \in DemoCredentials : \E m \in MissStatuses(c) : DemoGetLogs(c, m)
    \/ \E c \in DemoCredentials : \E m \in MissStatuses(c) : DemoGetStats(c, m)

SpecDemo == Init /\ [][NextDemo]_vars

----------------------------------------------------------------------------
(* Claims about the session gate and the login flow, under Spec *)

\* the account a token's subject names, if the token verifies at the clock
\* of the request and the account is stored
SubjectAccounts(token) ==
    LET payload == verify_token(token, now)
    IN  IF IsValue(payload) /\ "sub" \in DOMAIN payload.val
        THEN {u \in users : u.email = payload.val["sub"]}
        ELSE {}

\* C1: get_current_user returns an account only if the token verifies, has a
\* 'sub' and the account is the stored one with that email; in every other
\* case (verify_token returns None, no 'sub', no such account) it raises the
\* 401 with the Bearer challenge.
C1_GetCurrentUser ==
    (last.op = "me" /\ last.cred.scheme = "Bearer") =>
        LET r == get_current_user(last.cred.token, get_db, users, now)
            accounts == SubjectAccounts(last.cred.token)
        IN  /\ r.exc = "" => r.user \in accounts
            /\ accounts = {} => r = GateHttp(credentials_exception)

\* C2: an admitted request carries an active account, and a still-valid token
\* of a deactivated account is answered with the 400 'inactive account'
\* rejection, neither the 401 nor admission.
C2_InactiveRejected ==
    (last.op = "me" /\ last.cred.scheme = "Bearer") =>
        \A u \in SubjectAccounts(last.cred.token) :
            /\ last.resp.status = 200 <=> u.is_active
            /\ ~u.is_active => last.resp = inactive_exception

\* the failure classes (a)-(d) of a gate request: no or malformed token,
\* expired, bad signature or algorithm, subject with no account
Unauthenticated(cred) ==
    \/ cred.scheme # "Bearer"
    \/ IsNone(verify_token(cred.token, now))
    \/ /\ IsValue(verify_token(cred.token, now))
       /\ "sub" \in DOMAIN cred.token.payload
       /\ SubjectAccounts(cred.token) = {}

\* C3: every gate rejection of the classes (a)-(d) is one and the same
\* outward signal: the same 401, the same detail, the same challenge header.
C3_OneUnauthenticatedSignal ==
    (last.op = "me" /\ Unauthenticated(last.cred)) =>
        last.resp = credentials_exception

\* whether some stored account has this email and this password
GoodCredentials(email, password) ==
    \E u \in users :
        u.email = email /\ verify_password(password, u.hashed_password) = Return(TRUE)

\* C9: a login with an unknown email and a login with a known email and a
\* wrong password get the identical 401 'Email o password incorrectos'.
C9_LoginRejectionsUniform ==
    (last.op = "login" /\ ~GoodCredentials(last.email, last.password)) =>
        last.resp = Response(401, "Email o password incorrectos", TRUE)

\* C10: login with the email and password of a registered account returns
\* a bearer token whose subject is that email, and the session gate admits
\* that token as exactly that account.
C10_RegisterLoginAdmit ==
    (last.op = "login" /\ GoodCredentials(last.email, last.password)) =>
        /\ last.resp.status = 200
        /\ last.resp.token_type = "bearer"
        /\ last.resp.access_token.payload["sub"] = last.email
        /\ \A u \in users :
              (u.email = last.email /\ u.is_active) =>
                  SessionGate(Bearer(last.resp.access_token), users, now) = GateOk(u)

----------------------------------------------------------------------------
(* Claims about the token codec, under SpecCodec *)

\* the token just decoded is the one create_access_token returned
DecodedIssued == issued.made /\ decoded.made /\ decoded.token = issued.token

\* the instant issuance + ttl of the issued token, for a ttl that was given
Due == issued.at + issued.delta.ticks

\* C4: verify_token never raises: it returns the token's claims, or None for
\* a malformed token, a signature mismatch, an expired token or an
\* unsupported algorithm; a token with an altered signature yields None.
C4_VerifyTokenNeverRaises ==
    decoded.made =>
        LET tk == decoded.token
            r == decoded.res
        IN  /\ ~Raised(r)
            /\ IsValue(r) => r.val = tk.payload
            /\ ~tk.wellformed => IsNone(r)
            /\ tk.alg # ALGORITHM => IsNone(r)
            /\ tk.sig.key # SECRET_KEY => IsNone(r)
            /\ (issued.made /\ tk = Tampered(issued.token)) => IsNone(r)
            /\ (tk.wellformed /\ "exp" \in DOMAIN tk.payload
                   /\ tk.payload["exp"] < timegm(now)) => IsNone(r)

C4_Witness ==
    /\ issued.made
    /\ decoded.made
    /\ decoded.token = Tampered(issued.token)
    /\ IsNone(decoded.res)

\* the claims returned for the issued token are those of the caller plus
\* the injected expiry
RoundTripFields(r) ==
    /\ DOMAIN r.val = DOMAIN issued.data \cup {"exp"}
    /\ \A k \in DOMAIN issued.data \ {"exp"} : r.val[k] = issued.data[k]
    /\ r.val["exp"] = timegm(Due)

\* C5 as stated: for a ttl > 0 the round trip returns the caller's fields
\* plus 'exp' at the issuance instant, and None at any instant later than
\* issuance + ttl.
C5_RoundTrip_Original ==
    (DecodedIssued /\ issued.delta.given /\ issued.delta.ticks > 0) =>
        /\ now = issued.at => IsValue(decoded.res) /\ RoundTripFields(decoded.res)
        /\ now > Due => IsNone(decoded.res)

\* C5 as amended: for a ttl > 0 the round trip returns the caller's fields
\* plus 'exp' at the issuance instant, and it returns None exactly when the
\* whole second of the clock is later than the whole second of issuance +
\* ttl, hence at every instant a second or more after issuance + ttl.
C5_RoundTrip ==
    (DecodedIssued /\ issued.delta.given /\ issued.delta.ticks > 0) =>
        /\ ~Raised(decoded.res)
        /\ now = issued.at => IsValue(decoded.res)
        /\ IsValue(decoded.res) => RoundTripFields(decoded.res)
        /\ IsNone(decoded.res) <=> timegm(now) > timegm(Due)
        /\ now >= Due + Seconds(1) => IsNone(decoded.res)

C5_Witness ==
    /\ DecodedIssued
    /\ issued.delta = Delta(Seconds(1))
    /\ now >= Due + Seconds(1)
    /\ IsNone(decoded.res)

\* C6: a token issued with an explicit ttl of zero is expired on the very
\* next verify_token call, which returns None.
C6_ZeroTtlExpired ==
    (DecodedIssued /\ issued.delta = Delta(0)) => IsNone(decoded.res)

\* C7: every token create_access_token returns carries an 'exp' claim whose
\* instant is strictly later than the instant of issuance.
C7_ExpiryInFuture ==
    issued.made =>
        /\ "exp" \in DOMAIN issued.token.payload
        /\ Seconds(issued.token.payload["exp"]) > issued.at

\* C8: 'exp' is issuance + expires_delta when a ttl is supplied and issuance
\* + 15 minutes when none is, whatever 'exp' the caller's claims brought.
C8_ExpiryValue ==
    issued.made =>
        issued.token.payload["exp"] =
            IF issued.delta.given THEN timegm(Due)
            ELSE timegm(issued.at + Minutes(DEFAULT_EXPIRE_MINUTES))

----------------------------------------------------------------------------
(* Claims about the account store, under Spec *)

\* C11: login and the session gate are read-only and keep no session record:
\* a step that answers a login or a token presentation, admitted or rejected,
\* leaves the set of accounts, every account field and every registration in
\* flight as they were; nothing but the response is produced.
C11_AuthCoreReadOnly ==
    [][last'.op \in {"login", "me"} =>
          /\ users' = users
          /\ pending' = pending
          /\ now' = now]_vars

\* a login and a token presentation answered while accounts are stored
C11_Witness ==
    /\ last.op \in {"login", "me"}
    /\ \E u \in users : last.email = u.email \/ u \in SubjectAccounts(last.cred.token)

C13_EmailUnique ==
    \A u, v \in users : u.email = v.email => u = v

\* the second of two registrations of one email that both passed the check
\* has reached its commit, and the email is stored once
C13_Witness ==
    /\ last.op = "register"
    /\ last.resp = ServerError
    /\ \E u \in users : u.email = last.email

----------------------------------------------------------------------------
(* Claims about the credential hasher, under SpecHasher *)

\* C14: a malformed stored hash is a non-match, not a fault: verify_password
\* returns false for it instead of raising, or at least authenticate_user
\* called with the email of such an account returns None and login answers
\* with the ordinary bad-credentials 401.
C14_MalformedHashFailsClosed ==
    /\ (verified.made /\ IsMalformed(verified.hashed))
          => verified.res = Return(FALSE)
       \/ \A u \in users : u.hashed_password = verified.hashed =>
             IsNone(authenticate_user(get_db, users, u.email, verified.plain))
    /\ \A u \in users :
          (last.op = "login" /\ last.email = u.email /\ IsMalformed(u.hashed_password))
            => last.resp = Response(401, "Email o password incorrectos", TRUE)

----------------------------------------------------------------------------
(* Claims about the steps of the session gate, under SpecGate *)

IsPrefix(s, t) == Len(s) <= Len(t) /\ \A i \in 1..Len(s) : s[i] = t[i]

\* the two kinds of rejection: unauthenticated (401 with the challenge) and
\* inactive account (400)
IsRejection(r) ==
    /\ r.exc = "HTTPException"
    /\ \/ r.http.status = 401 /\ r.http.challenge
       \/ r.http = inactive_exception

\* C15: a request goes through extract, decode, resolve, admit and the active
\* check in this order, each step at most once; the store is queried only
\* for a token that decoded and yielded a subject; the active flag is looked
\* at only for a resolved account; the first failing step ends the request;
\* and a request that has ended has exactly one outcome: admitted with one
\* active account, or rejected.
C15_GateLinearChain ==
    /\ IsPrefix(gate.trace, GateSteps)
    /\ gate.pc \in {"resolve", "active"} \/ (\E i \in DOMAIN gate.trace : gate.trace[i] = "resolve")
         => \/ IsValue(gate.payload) /\ "sub" \in DOMAIN gate.payload.val
    /\ gate.pc = "active" \/ (\E i \in DOMAIN gate.trace : gate.trace[i] = "active")
         => gate.user # NoUser
    /\ gate.pc = "done" =>
         \/ gate.res.exc = "" /\ gate.res.user = gate.user /\ gate.res.user.is_active
         \/ IsRejection(gate.res)

----------------------------------------------------------------------------
(* Claims about registration, under Spec *)

\* C17: a register_user request is answered at its existence check exactly
\* when its email belongs to a stored account, with 409 and the store left
\* as it was; a request that found its email unused adds exactly one account
\* with that email, answers 201 and leaves every other account unchanged.
C17_RegisterOutcome ==
    [][last'.op = "register" =>
          IF pending' = pending
          THEN /\ \E u \in users : u.email = last'.email
               /\ last'.resp = Response(409, "Usuario ya existe", FALSE)
               /\ users' = users
          ELSE /\ last'.resp.status = 201
               /\ \E u \in users' \ users :
                     /\ u.email = last'.email
                     /\ users' = users \cup {u}]_vars

----------------------------------------------------------------------------
(* Claims about the demo service, under SpecDemo *)

HasValidKey(cred) == cred.scheme = "Bearer" /\ cred.credentials = valid_token

WriteOps == {"create_item", "update_item", "delete_item"}
AdminOps == {"get_logs", "get_stats"}

\* C16 as claimed: fake_items_db changes only in a request that presents the
\* valid API key; a POST, PUT or DELETE with no credentials or another token
\* is answered 401 and changes nothing; the admin endpoints return data only
\* to the valid key, whose user has the role admin.
C16_KeyGuardsItems_Original ==
    [][/\ fake_items_db' # fake_items_db => HasValidKey(reply'.cred)
       /\ (reply'.op \in WriteOps /\ ~HasValidKey(reply'.cred))
             => reply'.status = 401 /\ fake_items_db' = fake_items_db
       /\ (reply'.op \in AdminOps /\ reply'.data # NoData)
             => HasValidKey(reply'.cred) /\ DemoUser.role = "admin"]_vars

\* the statuses a write without the valid key is refused with: 400 when the
\* body fails validate_item_data, which runs before the key is looked at;
\* else HTTPBearer's own status when there is no Bearer header; else 401
RefusalStatuses(req) ==
    IF req.op # "delete_item" /\ validate_item_data(req.item).status # 0 THEN {400}
    ELSE IF req.cred.scheme # "Bearer" THEN HTTPBearerStatuses
    ELSE {401}

\* C16: fake_items_db changes only in a request that presents the valid API
\* key; a POST, PUT or DELETE with no credentials or another token is
\* refused (400 for invalid item data, 403 or 401 for a missing header, 401
\* for a wrong token), changes nothing and is not logged; the admin
\* endpoints return data only to the valid key, whose user has the role
\* admin.
C16_KeyGuardsItems ==
    [][/\ fake_items_db' # fake_items_db => HasValidKey(reply'.cred)
       /\ (reply'.op \in WriteOps /\ ~HasValidKey(reply'.cred))
             => /\ reply'.status \in RefusalStatuses(reply')
                /\ fake_items_db' = fake_items_db
                /\ request_logs' = request_logs
       /\ (reply'.op \in AdminOps /\ reply'.data # NoData)
             => HasValidKey(reply'.cred) /\ DemoUser.role = "admin"]_vars

\* a write with a wrong token refused while the store holds items, and an
\* admin request answered with data
C16_Witness ==
    /\ fake_items_db # <<>>
    /\ \/ reply.op \in WriteOps /\ ~HasValidKey(reply.cred) /\ reply.status = 401
       \/ reply.op \in AdminOps /\ reply.data # NoData

\* C20: no two entries of fake_items_db have the same id, after any sequence
\* of create_item, update_item and delete_item requests, so that a path
\* /items/{id} addresses at most one item.
C20_ItemIdsUnique ==
    \A i, j \in DOMAIN fake_items_db :
        fake_items_db[i].id = fake_items_db[j].id => i = j

\* C21: no two entries of fake_items_db have names that are equal when case
\* is ignored, after any sequence of create_item, update_item and
\* delete_item requests; a create_item answered 409 found such a name in
\* the list.
C21_ItemNamesUnique ==
    /\ \A i, j \in DOMAIN fake_items_db :
          Lower(fake_items_db[i].name) = Lower(fake_items_db[j].name) => i = j
    /\ (reply.op = "create_item" /\ reply.status = 409)
          => \E i \in DOMAIN fake_items_db :
                Lower(fake_items_db[i].name) = Lower(reply.item.name)

----------------------------------------------------------------------------
(* Claims about the items of the JWT service, under Spec *)

\* C19: no owner has two items of the same name, and of the create_item
\* requests of an authenticated, active user the one that stores the item is
\* answered 201 and one that finds the name taken, or loses the race for
\* it, is answered 409.
C19_OwnerNameUnique ==
    /\ \A i, j \in items : (i.owner_id = j.owner_id /\ i.name = j.name) => i = j
    /\ (/\ last.op = "create_item"
        /\ last.cred.scheme = "Bearer"
        /\ \E u \in SubjectAccounts(last.cred.token) : u.is_active)
          => last.resp.status \in {201, 409}

----------------------------------------------------------------------------
(* Claims about the active flag, under SpecApi *)

\* C22: every account created by register_user is active, whatever
\* is_active the registration request carried; no endpoint changes the
\* flag, so no request of the API is answered with the inactive-account
\* rejection.
C22_RegisteredActive ==
    /\ \A u \in users : u.is_active
    /\ (last.op = "register" /\ last.resp.status = 201) => last.resp.user.is_active
    /\ last.resp # inactive_exception

\* an account registered by a request that carried is_active = false
C22_Witness ==
    /\ last.op = "register"
    /\ last.resp.status = 201
    /\ ~last.is_active
    /\ last.resp.user \in users

====
